---- MODULE Spec2Model ----
(***************************************************************************)
(* State-machine model of lnd_services.go (package lndclient): the         *)
(* bootstrap NewLndServices, the compatibility check, the teardown closure *)
(* and the chain-sync wait with its polling goroutine.                     *)
(***************************************************************************)
EXTENDS Integers, Sequences, FiniteSets, TLC

(***************************************************************************)
(* Bounds of the model.                                                    *)
(***************************************************************************)
\* version components of the pure-function harness range over 0..MaxComponent
MaxComponent == 2
\* tag lists of the pure-function harness have at most MaxTags entries
MaxTags == 3
\* the polling goroutine issues at most MaxPolls GetInfo queries
MaxPolls == 3
\* the caller invokes Close at most MaxCloses times
MaxCloses == 2

(***************************************************************************)
(* Values.                                                                 *)
(***************************************************************************)
\* a Go nil error
NoErr == [text |-> <<>>, version |-> <<>>]

\* errors.New / fmt.Errorf without a formatted version
Err(text) == [text |-> text, version |-> <<>>]

\* fmt.Errorf("<prefix>: %v", err)
Wrap(prefix, err) == [text |-> <<prefix>> \o err.text, version |-> err.version]

ErrVersionCheckNotImplemented == Err(<<"version check not implemented">>)

ErrVersionIncompatible == Err(<<"version incompatible">>)

ErrBuildTagsMissing == Err(<<"build tags missing">>)

DefaultBuildTags == <<"signrpc", "walletrpc", "chainrpc", "invoicesrpc">>

minimalCompatibleVersion ==
    [major |-> 0, minor |-> 11, patch |-> 0, tags |-> DefaultBuildTags]

\* VersionString, as far as the error message shows it: the dotted triple
VersionString(v) == <<v.major, v.minor, v.patch>>

Range(s) == {s[i] : i \in 1..Len(s)}

(***************************************************************************)
(* assertVersionCompatible: the version parts are compared sequentially.   *)
(***************************************************************************)
assertVersionCompatibleMinorFirst(actual, expected) ==
    IF actual.minor # expected.minor
    THEN IF actual.minor > expected.minor THEN NoErr ELSE ErrVersionIncompatible
    ELSE IF actual.major # expected.major
    THEN IF actual.major > expected.major THEN NoErr ELSE ErrVersionIncompatible
    ELSE IF actual.patch # expected.patch
    THEN IF actual.patch > expected.patch THEN NoErr ELSE ErrVersionIncompatible
    ELSE NoErr

assertVersionCompatible(actual, expected) ==
    IF actual.major # expected.major
    THEN IF actual.major > expected.major THEN NoErr ELSE ErrVersionIncompatible
    ELSE IF actual.minor # expected.minor
    THEN IF actual.minor > expected.minor THEN NoErr ELSE ErrVersionIncompatible
    ELSE IF actual.patch # expected.patch
    THEN IF actual.patch > expected.patch THEN NoErr ELSE ErrVersionIncompatible
    ELSE NoErr

(***************************************************************************)
(* assertBuildTagsEnabled: the actual tags are put into a map, then every  *)
(* required tag is looked up in order, the first miss returning the error. *)
(***************************************************************************)
RECURSIVE buildTagMap(_, _, _)
buildTagMap(tags, i, tagMap) ==
    IF i > Len(tags) THEN tagMap
    ELSE buildTagMap(tags, i + 1, tagMap \cup {tags[i]})

RECURSIVE lookupRequired(_, _, _)
lookupRequired(requiredTags, i, tagMap) ==
    IF i > Len(requiredTags) THEN NoErr
    ELSE IF requiredTags[i] \notin tagMap THEN ErrBuildTagsMissing
    ELSE lookupRequired(requiredTags, i + 1, tagMap)

assertBuildTagsEnabledFirstOnly(actual, requiredTags) ==
    IF Len(requiredTags) > 0 /\ requiredTags[1] \notin buildTagMap(actual.tags, 1, {})
    THEN ErrBuildTagsMissing
    ELSE NoErr

assertBuildTagsEnabled(actual, requiredTags) ==
    lookupRequired(requiredTags, 1, buildTagMap(actual.tags, 1, {}))

(***************************************************************************)
(* State.  A pointer or optional value is a sequence of length 0 or 1.     *)
(***************************************************************************)
VARIABLES
    cfg,            \* *LndServicesConfig
    pc,             \* position of the caller inside NewLndServices
    conn,           \* the grpc.ClientConn: "none", "open" or "closed"
    rpcs,           \* RPCs issued by the bootstrap so far
    info,           \* reply of the GetInfo call of the compatibility check
    versionReply,   \* reply of the GetVersion call
    evaluated,      \* the assert functions checkVersionCompatibility evaluated
    compatErr,      \* the error handed to onErr
    ret,            \* what NewLndServices returned
    permissions,    \* *availablePermissions
    lndServices,    \* the LndServices value: client slots and cached node data
    cleanupFuncs,   \* the shutdown hooks, in registration order
    cleanupLog,     \* one entry per run of cleanup: the calls it made, in order
    available,      \* result of the latest GetAvailableClients call, with the
                    \* number of cleanup runs before it
    gpc,            \* position of the polling goroutine
    update,         \* the update channel: "none", "open" or "closed"
    outcome,        \* value the goroutine is sending on update
    ctxDone,        \* mainCtx.Done() is closed
    timer,          \* the time.After timer of the select: "none", "armed", "fired"
    polls,          \* results of the GetInfo status queries, in order
    inFlight,       \* number of GetInfo status queries issued and not returned
    intervals,      \* poll intervals that have elapsed
    cancelAt,       \* history: the goroutine's position and the number of queries
                    \* issued when the context was cancelled
    syncErr,        \* what waitForChainSync returned
    fnArgs,         \* arguments of a function under test
    fnRes           \* its result

bootVars == <<cfg, pc, conn, rpcs, info, versionReply, evaluated, compatErr, ret>>

registryVars == <<permissions, lndServices, cleanupFuncs>>

syncVars ==
    <<gpc, update, outcome, ctxDone, timer, polls, inFlight, intervals, cancelAt,
      syncErr>>

fnVars == <<fnArgs, fnRes>>

vars == <<bootVars, registryVars, cleanupLog, available, syncVars, fnVars>>

(***************************************************************************)
(* Inputs: configurations and the replies of the external collaborators.   *)
(***************************************************************************)
\* the networks loadMacaroonsFromDirectory knows a default directory for
KnownNetworks == {"testnet", "mainnet", "simnet", "regtest"}

\* a caller-supplied minimum version that differs from the default
CustomCheckVersion ==
    [major |-> 0, minor |-> 11, patch |-> 1, tags |-> <<"signrpc", "walletrpc">>]

\* customMacaroon: CustomMacaroon != nil; macaroonDir: MacaroonDir != "";
\* customMacaroonPath: CustomMacaroonPath != ""; chainSyncCtx: ChainSyncCtx != nil
\* (a ChainSyncCtx is only passed in together with BlockUntilChainSynced)
Configs ==
    {c \in [customMacaroon : BOOLEAN,
            macaroonDir : BOOLEAN,
            customMacaroonPath : BOOLEAN,
            network : {"mainnet", "badnet"},
            checkVersion : {<<>>, <<CustomCheckVersion>>},
            blockUntilChainSynced : BOOLEAN,
            chainSyncCtx : BOOLEAN] :
        c.chainSyncCtx => c.blockUntilChainSynced}

DefaultConfig ==
    [customMacaroon |-> FALSE, macaroonDir |-> FALSE, customMacaroonPath |-> FALSE,
     network |-> "mainnet", checkVersion |-> <<>>,
     blockUntilChainSynced |-> FALSE, chainSyncCtx |-> FALSE]

\* replies of lightningClient.GetInfo during the compatibility check
InfoReplies ==
    [err : {TRUE}, network : {""}, alias : {""}, pubkey : {0}]
    \cup [err : {FALSE}, network : {"mainnet", "testnet"},
          alias : {"alice"}, pubkey : {1}]

\* versions a daemon may report
DaemonVersions ==
    {[major |-> 0, minor |-> 10, patch |-> 9, tags |-> DefaultBuildTags],
     [major |-> 0, minor |-> 11, patch |-> 0, tags |-> DefaultBuildTags],
     [major |-> 0, minor |-> 11, patch |-> 0, tags |-> <<"walletrpc">>],
     [major |-> 0, minor |-> 11, patch |-> 1,
      tags |-> <<"walletrpc", "signrpc", "chainrpc">>],
     [major |-> 1, minor |-> 0, patch |-> 0, tags |-> DefaultBuildTags]}

\* replies of versionerClient.GetVersion: a version, an error carrying a gRPC
\* status (isStatus, with its code), or an error that carries none
VersionReplies ==
    [kind : {"version"}, isStatus : {FALSE}, code : {"OK"},
     version : {<<v>> : v \in DaemonVersions}]
    \cup [kind : {"error"}, isStatus : {TRUE}, code : {"Unimplemented", "Unavailable"},
          version : {<<>>}]
    \cup [kind : {"error"}, isStatus : {FALSE}, code : {"Unknown"},
          version : {<<>>}]

NoReply == [kind |-> "none", isStatus |-> FALSE, code |-> "OK", version |-> <<>>]

Permissions ==
    [lightning : BOOLEAN, walletKit : BOOLEAN, chainNotifier : BOOLEAN,
     signer : BOOLEAN, invoices : BOOLEAN, router : BOOLEAN, readOnly : BOOLEAN]

NoPermissions ==
    [lightning |-> FALSE, walletKit |-> FALSE, chainNotifier |-> FALSE,
     signer |-> FALSE, invoices |-> FALSE, router |-> FALSE, readOnly |-> FALSE]

\* the zero LndServices value: every client slot nil
NoServices ==
    [Client |-> FALSE, WalletKit |-> FALSE, ChainNotifier |-> FALSE,
     Signer |-> FALSE, Invoices |-> FALSE, Router |-> FALSE, Versioner |-> FALSE,
     NodeAlias |-> "", NodePubkey |-> 0, Version |-> <<>>]

NotReturned == [returned |-> FALSE, at |-> "", services |-> FALSE, err |-> NoErr]

(***************************************************************************)
(* Initial states.                                                         *)
(***************************************************************************)
StartState(configs) ==
    /\ cfg \in configs
    /\ pc = "start"
    /\ conn = "none"
    /\ rpcs = <<>>
    /\ info = <<>>
    /\ versionReply = NoReply
    /\ evaluated = <<>>
    /\ compatErr = NoErr
    /\ ret = NotReturned
    /\ permissions = NoPermissions
    /\ lndServices = NoServices
    /\ cleanupFuncs = <<>>
    /\ cleanupLog = <<>>
    /\ available = <<>>
    /\ gpc = "idle"
    /\ update = "none"
    /\ outcome = NoErr
    /\ ctxDone = FALSE
    /\ timer = "none"
    /\ polls = <<>>
    /\ inFlight = 0
    /\ intervals = 0
    /\ cancelAt = [gpc |-> "none", polls |-> 0]
    /\ syncErr = <<>>

Init ==
    /\ StartState(Configs)
    /\ fnArgs = <<>>
    /\ fnRes = <<>>

\* return nil, err / return services, nil of NewLndServices
Return(at, services, err) ==
    /\ pc' = "returned"
    /\ ret' = [returned |-> TRUE, at |-> at, services |-> services, err |-> err]

(***************************************************************************)
(* NewLndServices up to the compatibility check.                           *)
(***************************************************************************)
ErrMacaroonConfig ==
    Err(<<"if CustomMacaroon is not provided, must set either MacaroonDir or CustomMacaroonPath but not both">>)

macaroonConfigConflictIgnoringRaw(c) ==
    c.macaroonDir /\ c.customMacaroonPath

macaroonConfigConflict(c) ==
    ~c.customMacaroon /\ (c.macaroonDir /\ c.customMacaroonPath)

\* the default of cfg.CheckVersion and the check of the macaroon sources
CheckConfig ==
    /\ pc = "start"
    /\ cfg' = [cfg EXCEPT !.checkVersion =
                  IF @ = <<>> THEN <<minimalCompatibleVersion>> ELSE @]
    /\ IF macaroonConfigConflict(cfg)
       THEN Return("config", FALSE, ErrMacaroonConfig)
       ELSE pc' = "loadDir" /\ UNCHANGED ret
    /\ UNCHANGED <<conn, rpcs, info, versionReply, evaluated, compatErr>>
    /\ UNCHANGED <<registryVars, cleanupLog, syncVars, available, fnVars>>

\* loadMacaroonsFromDirectory: the error of an unset directory on an
\* unsupported network
loadMacaroonsFromDirectory(c) ==
    IF ~c.macaroonDir /\ c.network \notin KnownNetworks
    THEN Err(<<"unsupported network">>)
    ELSE NoErr

LoadMacaroonDir ==
    /\ pc = "loadDir"
    /\ IF ~cfg.customMacaroon /\ loadMacaroonsFromDirectory(cfg) # NoErr
       THEN Return("loadDir", FALSE, loadMacaroonsFromDirectory(cfg))
       ELSE pc' = "dial" /\ UNCHANGED ret
    /\ UNCHANGED <<cfg, conn, rpcs, info, versionReply, evaluated, compatErr>>
    /\ UNCHANGED <<registryVars, cleanupLog, syncVars, available, fnVars>>

\* getClientConn: loading the TLS credentials or dialing may fail
GetClientConn ==
    /\ pc = "dial"
    /\ \E ok \in BOOLEAN :
          IF ok
          THEN conn' = "open" /\ pc' = "chainParams" /\ UNCHANGED ret
          ELSE /\ Return("dial", FALSE, Err(<<"getClientConn">>))
               /\ UNCHANGED conn
    /\ UNCHANGED <<cfg, rpcs, info, versionReply, evaluated, compatErr>>
    /\ UNCHANGED <<registryVars, cleanupLog, syncVars, available, fnVars>>

\* cfg.Network.ChainParams()
ChainParams ==
    /\ pc = "chainParams"
    /\ \E ok \in BOOLEAN :
          IF ok
          THEN pc' = "readonlyMac" /\ UNCHANGED ret
          ELSE Return("chainParams", FALSE, Err(<<"ChainParams">>))
    /\ UNCHANGED <<cfg, conn, rpcs, info, versionReply, evaluated, compatErr>>
    /\ UNCHANGED <<registryVars, cleanupLog, syncVars, available, fnVars>>

\* loadMacaroon of the readonly macaroon, or serializeBytesToMacaroon
LoadReadonlyMacaroon ==
    /\ pc = "readonlyMac"
    /\ \E ok \in BOOLEAN :
          IF ok \/ cfg.customMacaroon
          THEN pc' = "checkPermissions" /\ UNCHANGED ret
          ELSE Return("readonlyMac", FALSE, Err(<<"loadMacaroon">>))
    /\ UNCHANGED <<cfg, conn, rpcs, info, versionReply, evaluated, compatErr>>
    /\ UNCHANGED <<registryVars, cleanupLog, syncVars, available, fnVars>>

\* checkMacaroonPermissions(readonlyMac, readOnlyRequiredPermssions)
CheckMacaroonPermissions ==
    /\ pc = "checkPermissions"
    /\ \E ok \in BOOLEAN :
          IF ok
          THEN pc' = "getInfo" /\ UNCHANGED ret
          ELSE Return("checkPermissions", FALSE,
                      Err(<<"permissions needed for readonly operations not found in provided macaroon(s)">>))
    /\ UNCHANGED <<cfg, conn, rpcs, info, versionReply, evaluated, compatErr>>
    /\ UNCHANGED <<registryVars, cleanupLog, syncVars, available, fnVars>>

(***************************************************************************)
(* checkLndCompatibility and checkVersionCompatibility.                    *)
(***************************************************************************)
\* onErr without its conn.Close()
onErrNoClose(c, err, minVersion) ==
    [conn |-> c,
     err |-> IF err = ErrVersionIncompatible \/ err = ErrBuildTagsMissing
             THEN [text |-> <<"error checking connected lnd version. at least version is required">>,
                   version |-> VersionString(minVersion)]
             ELSE Wrap("lnd compatibility check failed", err)]

\* onErr with the version message for ErrVersionIncompatible alone
onErrTagsNotReworded(c, err, minVersion) ==
    [conn |-> "closed",
     err |-> IF err = ErrVersionIncompatible
             THEN [text |-> <<"error checking connected lnd version. at least version is required">>,
                   version |-> VersionString(minVersion)]
             ELSE Wrap("lnd compatibility check failed", err)]

\* the onErr closure: closes the connection and builds the returned error
onErr(c, err, minVersion) ==
    [conn |-> "closed",
     err |-> IF err = ErrVersionIncompatible \/ err = ErrBuildTagsMissing
             THEN [text |-> <<"error checking connected lnd version. at least version is required">>,
                   version |-> VersionString(minVersion)]
             ELSE Wrap("lnd compatibility check failed", err)]

\* return onErr(err) in checkLndCompatibility, then return nil, err in
\* NewLndServices
CompatFails(err) ==
    /\ compatErr' = err
    /\ conn' = onErr(conn, err, cfg.checkVersion[1]).conn
    /\ Return("compat", FALSE, onErr(conn, err, cfg.checkVersion[1]).err)

\* lightningClient.GetInfo and the network check
CompatGetInfo ==
    /\ pc = "getInfo"
    /\ \E reply \in InfoReplies :
          /\ info' = <<reply>>
          /\ rpcs' = Append(rpcs, "GetInfo")
          /\ IF reply.err
             THEN CompatFails(Err(<<"unable to get info for lnd node", "rpc error">>))
             ELSE IF cfg.network # reply.network
             THEN CompatFails(Err(<<"network mismatch with connected lnd node">>))
             ELSE pc' = "getVersion" /\ UNCHANGED <<conn, compatErr, ret>>
    /\ UNCHANGED <<cfg, versionReply, evaluated>>
    /\ UNCHANGED <<registryVars, cleanupLog, syncVars, available, fnVars>>

getVersionErrorAlwaysGeneric(reply) ==
    Err(<<"GetVersion error", reply.code>>)

\* the error checkVersionCompatibility returns for a failed GetVersion call
getVersionError(reply) ==
    IF reply.isStatus /\ reply.code = "Unimplemented"
    THEN ErrVersionCheckNotImplemented
    ELSE Err(<<"GetVersion error", reply.code>>)

\* client.GetVersion in checkVersionCompatibility
CompatGetVersion ==
    /\ pc = "getVersion"
    /\ \E reply \in VersionReplies :
          /\ versionReply' = reply
          /\ rpcs' = Append(rpcs, "GetVersion")
          /\ IF reply.kind = "error"
             THEN CompatFails(getVersionError(reply))
             ELSE pc' = "assertVersion" /\ UNCHANGED <<conn, compatErr, ret>>
    /\ UNCHANGED <<cfg, info, evaluated>>
    /\ UNCHANGED <<registryVars, cleanupLog, syncVars, available, fnVars>>

\* err = assertVersionCompatible(version, expected)
CompatAssertVersion ==
    /\ pc = "assertVersion"
    /\ evaluated' = Append(evaluated, "assertVersionCompatible")
    /\ LET err == assertVersionCompatible(versionReply.version[1], cfg.checkVersion[1])
       IN IF err # NoErr
          THEN CompatFails(err)
          ELSE pc' = "assertTags" /\ UNCHANGED <<conn, compatErr, ret>>
    /\ UNCHANGED <<cfg, rpcs, info, versionReply>>
    /\ UNCHANGED <<registryVars, cleanupLog, syncVars, available, fnVars>>

\* err = assertBuildTagsEnabled(version, expected.BuildTags); on success
\* checkLndCompatibility returns the alias, the key and the version
CompatAssertTags ==
    /\ pc = "assertTags"
    /\ evaluated' = Append(evaluated, "assertBuildTagsEnabled")
    /\ LET err == assertBuildTagsEnabled(versionReply.version[1],
                                         cfg.checkVersion[1].tags)
       IN IF err # NoErr
          THEN CompatFails(err)
          ELSE pc' = "pouch" /\ UNCHANGED <<conn, compatErr, ret>>
    /\ UNCHANGED <<cfg, rpcs, info, versionReply>>
    /\ UNCHANGED <<registryVars, cleanupLog, syncVars, available, fnVars>>

(***************************************************************************)
(* NewLndServices after the compatibility check: the macaroon pouch, the   *)
(* permissions and the activation of the clients.                          *)
(***************************************************************************)
\* newMacaroonPouch
NewMacaroonPouch ==
    /\ pc = "pouch"
    /\ \E ok \in BOOLEAN :
          IF ok
          THEN pc' = "activate" /\ UNCHANGED ret
          ELSE Return("pouch", FALSE, Err(<<"unable to obtain macaroons">>))
    /\ UNCHANGED <<cfg, conn, rpcs, info, versionReply, evaluated, compatErr>>
    /\ UNCHANGED <<registryVars, cleanupLog, syncVars, available, fnVars>>

clientSlotsSignerByWalletKit(p) ==
    [Client |-> p.lightning, Versioner |-> TRUE,
     ChainNotifier |-> p.chainNotifier, Invoices |-> p.invoices,
     Signer |-> p.walletKit, WalletKit |-> p.walletKit, Router |-> p.router]

\* the client slots NewLndServices fills in for permissions p with p.lightning
clientSlots(p) ==
    [Client |-> p.lightning, Versioner |-> TRUE,
     ChainNotifier |-> p.chainNotifier, Invoices |-> p.invoices,
     Signer |-> p.signer, WalletKit |-> p.walletKit, Router |-> p.router]

\* the invoices hook appended before the chain notifier hook
registeredCleanupFuncsInvoicesFirst(p) ==
    <<"lightningClient.WaitForFinished">>
    \o (IF p.invoices THEN <<"invoicesClient.WaitForFinished">> ELSE <<>>)
    \o (IF p.chainNotifier THEN <<"notifierClient.WaitForFinished">> ELSE <<>>)

\* the cleanupFuncs NewLndServices appends for permissions p with p.lightning
registeredCleanupFuncs(p) ==
    <<"lightningClient.WaitForFinished">>
    \o (IF p.chainNotifier THEN <<"notifierClient.WaitForFinished">> ELSE <<>>)
    \o (IF p.invoices THEN <<"invoicesClient.WaitForFinished">> ELSE <<>>)

\* the literal with the configured minimum version in place of the reported one
cachedServicesExpectedVersion ==
    [NoServices EXCEPT !.NodeAlias = info[1].alias,
                       !.NodePubkey = info[1].pubkey,
                       !.Version = cfg.checkVersion]

\* the LndServices literal: node data cached from the compatibility check
cachedServices ==
    [NoServices EXCEPT !.NodeAlias = info[1].alias,
                       !.NodePubkey = info[1].pubkey,
                       !.Version = versionReply.version]

\* loadAvailablePermissions, the activation of the clients, the cleanup
\* closure and the services value; without BlockUntilChainSynced the return
Activate ==
    /\ pc = "activate"
    /\ \E p \in Permissions :
          /\ permissions' = p
          /\ IF ~p.lightning
             THEN /\ Return("activate", FALSE,
                            Err(<<"required permissions for main lightning client not available">>))
                  /\ lndServices' = cachedServices
                  /\ UNCHANGED cleanupFuncs
             ELSE /\ lndServices' =
                        [s \in DOMAIN NoServices |->
                            IF s \in DOMAIN clientSlots(p)
                            THEN clientSlots(p)[s] ELSE cachedServices[s]]
                  /\ cleanupFuncs' = registeredCleanupFuncs(p)
                  /\ IF cfg.blockUntilChainSynced
                     THEN pc' = "waitForChainSync" /\ UNCHANGED ret
                     ELSE Return("done", TRUE, NoErr)
    /\ UNCHANGED <<cfg, conn, rpcs, info, versionReply, evaluated, compatErr>>
    /\ UNCHANGED <<cleanupLog, syncVars, available, fnVars>>

(***************************************************************************)
(* The cleanup closure and Close.                                          *)
(***************************************************************************)
cleanupCallsHooksFirst(funcs) ==
    funcs \o <<"conn.Close">>

\* the calls one run of cleanup makes, in order: conn.Close(), then every
\* cleanupFunc in the order of the slice
cleanupCalls(funcs) ==
    <<"conn.Close">> \o funcs

\* a cleanup that is not run
CleanupSkipped ==
    UNCHANGED <<conn, cleanupLog>>

\* one run of the cleanup closure
Cleanup ==
    /\ conn' = "closed"
    /\ cleanupLog' = Append(cleanupLog, cleanupCalls(cleanupFuncs))

\* GrpcLndServices.Close, called by the owner of a returned registry
Close ==
    /\ pc = "returned"
    /\ ret.services
    /\ Len(cleanupLog) < MaxCloses
    /\ Cleanup
    /\ UNCHANGED <<cfg, pc, rpcs, info, versionReply, evaluated, compatErr, ret>>
    /\ UNCHANGED <<registryVars, syncVars, available, fnVars>>

getAvailableClientsWithoutReadOnly(p) ==
    (IF p.lightning THEN <<"lightning">> ELSE <<>>)
    \o (IF p.walletKit THEN <<"walletkit">> ELSE <<>>)
    \o (IF p.router THEN <<"router">> ELSE <<>>)
    \o (IF p.signer THEN <<"signer">> ELSE <<>>)
    \o (IF p.invoices THEN <<"invoices">> ELSE <<>>)
    \o (IF p.chainNotifier THEN <<"chainnotifier">> ELSE <<>>)

\* GetAvailableClients: the names appended for the permissions, in order
getAvailableClients(p) ==
    (IF p.lightning THEN <<"lightning">> ELSE <<>>)
    \o (IF p.walletKit THEN <<"walletkit">> ELSE <<>>)
    \o (IF p.router THEN <<"router">> ELSE <<>>)
    \o (IF p.signer THEN <<"signer">> ELSE <<>>)
    \o (IF p.invoices THEN <<"invoices">> ELSE <<>>)
    \o (IF p.chainNotifier THEN <<"chainnotifier">> ELSE <<>>)
    \o (IF p.readOnly THEN <<"readonly">> ELSE <<>>)

\* GrpcLndServices.GetAvailableClients, called by the owner of a returned
\* registry, before or after Close
GetAvailableClients ==
    /\ pc = "returned"
    /\ ret.services
    /\ available' = <<[names |-> getAvailableClients(permissions),
                       closes |-> Len(cleanupLog)]>>
    /\ UNCHANGED <<bootVars, registryVars, cleanupLog, syncVars, fnVars>>

(***************************************************************************)
(* waitForChainSync: the caller and the polling goroutine.                 *)
(***************************************************************************)
\* mainCtx.Err() once the context is cancelled
ErrContextCanceled == Err(<<"context canceled">>)

QueryResultsCanceledWithoutToken(done) ==
    {"synced", "notSynced", "rpc error", "context deadline exceeded",
     "context canceled"}

\* results of s.Client.GetInfo(ctxt); ctxt is derived from mainCtx and from
\* the rpcTimeout, so the call can also end by either of them
QueryResults(done) ==
    {"synced", "notSynced", "rpc error", "context deadline exceeded"}
    \cup (IF done THEN {"context canceled"} ELSE {})

\* entry of waitForChainSync: the update channel and the goroutine
WaitForChainSync ==
    /\ pc = "waitForChainSync"
    /\ pc' = "recvUpdate"
    /\ update' = "open"
    /\ gpc' = "query"
    /\ UNCHANGED <<cfg, conn, rpcs, info, versionReply, evaluated, compatErr, ret>>
    /\ UNCHANGED <<outcome, ctxDone, timer, polls, inFlight, intervals, cancelAt,
                   syncErr>>
    /\ UNCHANGED <<registryVars, cleanupLog, available, fnVars>>

afterIssueWithoutWaiting ==
    "query"

\* goroutine: s.Client.GetInfo(ctxt) is a call: the goroutine waits for its
\* return before it goes on
afterIssue ==
    "inFlight"

\* goroutine: context.WithTimeout and the start of s.Client.GetInfo(ctxt)
IssueQuery ==
    /\ gpc = "query"
    /\ Len(polls) + inFlight < MaxPolls
    /\ gpc' = afterIssue
    /\ inFlight' = inFlight + 1
    /\ UNCHANGED <<update, outcome, ctxDone, timer, polls, intervals, cancelAt, syncErr>>
    /\ UNCHANGED <<bootVars, registryVars, cleanupLog, available, fnVars>>

afterGetInfoRetriesOnError(res) ==
    IF res = "synced" THEN "exited" ELSE "select"

\* goroutine: where the loop body goes with the result of GetInfo
afterGetInfo(res) ==
    IF res \notin {"synced", "notSynced"} THEN "send"
    ELSE IF res = "synced" THEN "exited"
    ELSE "select"

updateAfterGetInfoNeverClosed(res, u) ==
    u

\* goroutine: close(update) when GetInfo reported synced
updateAfterGetInfo(res, u) ==
    IF afterGetInfo(res) = "exited" THEN "closed" ELSE u

\* goroutine: GetInfo returns; an error is sent on update, synced closes
\* update, otherwise the select is entered and its timer created
QueryReturns ==
    /\ gpc = "inFlight"
    /\ \E res \in QueryResults(ctxDone) :
          /\ polls' = Append(polls, res)
          /\ inFlight' = inFlight - 1
          /\ gpc' = afterGetInfo(res)
          /\ outcome' = IF afterGetInfo(res) = "send"
                        THEN Err(<<"error in GetInfo call", res>>) ELSE outcome
          /\ update' = updateAfterGetInfo(res, update)
          /\ timer' = IF afterGetInfo(res) = "select" THEN "armed" ELSE timer
    /\ UNCHANGED <<ctxDone, intervals, cancelAt, syncErr>>
    /\ UNCHANGED <<bootVars, registryVars, cleanupLog, available, fnVars>>

timerReadyOnceArmed(t) ==
    t # "none"

\* the time.After case of the select can proceed
timerReady(t) ==
    t = "fired"

afterSelectAlwaysPolls(case) ==
    "query"

\* goroutine: where the select goes with the case it takes
afterSelect(case) ==
    IF case = "timer" THEN "query" ELSE "send"

TakeCaseSendsNoError(case) ==
    /\ gpc' = afterSelect(case)
    /\ outcome' = outcome
    /\ timer' = "none"

\* the goroutine leaves the select by the given case
TakeCase(case) ==
    /\ gpc' = afterSelect(case)
    /\ outcome' = IF afterSelect(case) = "send" THEN ErrContextCanceled ELSE outcome
    /\ timer' = "none"

\* goroutine: the select looks at its cases; one that can proceed is taken
\* (any of them when both can), with none the goroutine blocks
Select ==
    /\ gpc = "select"
    /\ \/ /\ timerReady(timer)
          /\ TakeCase("timer")
       \/ /\ ctxDone
          /\ TakeCase("done")
       \/ /\ ~timerReady(timer)
          /\ ~ctxDone
          /\ gpc' = "blocked"
          /\ UNCHANGED <<outcome, timer>>
    /\ UNCHANGED <<update, ctxDone, polls, inFlight, intervals, cancelAt, syncErr>>
    /\ UNCHANGED <<bootVars, registryVars, cleanupLog, available, fnVars>>

\* chainSyncPollInterval elapses: the timer fires, which wakes a goroutine
\* blocked in the select with the timer case
TimerFires ==
    /\ timer = "armed"
    /\ intervals' = intervals + 1
    /\ IF gpc = "blocked"
       THEN TakeCase("timer")
       ELSE timer' = "fired" /\ UNCHANGED <<gpc, outcome>>
    /\ UNCHANGED <<update, ctxDone, polls, inFlight, cancelAt, syncErr>>
    /\ UNCHANGED <<bootVars, registryVars, cleanupLog, available, fnVars>>

\* the owner of cfg.ChainSyncCtx cancels it, which wakes a goroutine blocked
\* in the select with the Done case
Cancel ==
    /\ pc \in {"waitForChainSync", "recvUpdate"}
    /\ cfg.chainSyncCtx
    /\ ~ctxDone
    /\ ctxDone' = TRUE
    /\ cancelAt' = [gpc |-> gpc, polls |-> Len(polls)]
    /\ IF gpc = "blocked"
       THEN TakeCase("done")
       ELSE UNCHANGED <<gpc, outcome, timer>>
    /\ UNCHANGED <<update, polls, inFlight, intervals, syncErr>>
    /\ UNCHANGED <<bootVars, registryVars, cleanupLog, available, fnVars>>

\* return <-update in waitForChainSync, which takes the value the goroutine
\* sends or the nil of the closed channel, and the rest of NewLndServices
ReceiveUpdate ==
    /\ pc = "recvUpdate"
    /\ \/ /\ gpc = "send"
          /\ gpc' = "exited"
          /\ syncErr' = <<outcome>>
          /\ Cleanup
          /\ Return("waitForChainSync", FALSE,
                    Wrap("error waiting for chain to be synced", outcome))
       \/ /\ update = "closed"
          /\ syncErr' = <<NoErr>>
          /\ Return("done", TRUE, NoErr)
          /\ UNCHANGED <<gpc, conn, cleanupLog>>
    /\ UNCHANGED <<cfg, rpcs, info, versionReply, evaluated, compatErr>>
    /\ UNCHANGED <<update, outcome, ctxDone, timer, polls, inFlight, intervals,
                   cancelAt>>
    /\ UNCHANGED <<registryVars, available, fnVars>>

Next ==
    \/ CheckConfig
    \/ LoadMacaroonDir
    \/ GetClientConn
    \/ ChainParams
    \/ LoadReadonlyMacaroon
    \/ CheckMacaroonPermissions
    \/ CompatGetInfo
    \/ CompatGetVersion
    \/ CompatAssertVersion
    \/ CompatAssertTags
    \/ NewMacaroonPouch
    \/ Activate
    \/ WaitForChainSync
    \/ IssueQuery
    \/ QueryReturns
    \/ Select
    \/ TimerFires
    \/ Cancel
    \/ ReceiveUpdate
    \/ Close
    \/ GetAvailableClients

Spec == Init /\ [][Next]_vars

\* what the scheduling of the wait guarantees: the caller and the goroutine
\* go on while they can, a GetInfo call returns (it is bounded by rpcTimeout)
\* and the timer of time.After fires; nothing makes the owner of the context
\* cancel it or the owner of the services call a method
SyncWaitFairness ==
    /\ WF_vars(WaitForChainSync)
    /\ WF_vars(IssueQuery)
    /\ WF_vars(QueryReturns)
    /\ WF_vars(Select)
    /\ WF_vars(TimerFires)
    /\ WF_vars(ReceiveUpdate)

\* configurations that ask for the wait, with and without a ChainSyncCtx;
\* waitForChainSync reads no other field of the configuration
SyncWaitConfigs ==
    {c \in Configs : /\ c.blockUntilChainSynced
                     /\ ~c.customMacaroon
                     /\ c.macaroonDir
                     /\ ~c.customMacaroonPath
                     /\ c.network = "mainnet"
                     /\ c.checkVersion = <<>>}

InitLive ==
    /\ StartState(SyncWaitConfigs)
    /\ fnArgs = <<>>
    /\ fnRes = <<>>

SpecLive == InitLive /\ [][Next]_vars /\ SyncWaitFairness

(***************************************************************************)
(* Specifications that apply the two assert functions to every pair of     *)
(* arguments within the bounds.                                            *)
(***************************************************************************)
HarnessVersions ==
    [major : 0..MaxComponent, minor : 0..MaxComponent, patch : 0..MaxComponent,
     tags : {<<>>}]

HarnessTagNames == {"signrpc", "walletrpc", "chainrpc"}

HarnessTagLists == UNION {[1..n -> HarnessTagNames] : n \in 0..MaxTags}

InitVersion ==
    /\ StartState({DefaultConfig})
    /\ fnArgs \in [actual : HarnessVersions, expected : HarnessVersions]
    /\ fnRes = <<>>

ApplyAssertVersionCompatible ==
    /\ fnRes = <<>>
    /\ fnRes' = <<assertVersionCompatible(fnArgs.actual, fnArgs.expected)>>
    /\ UNCHANGED <<bootVars, registryVars, cleanupLog, syncVars, available, fnArgs>>

NextVersion == ApplyAssertVersionCompatible

SpecVersion == InitVersion /\ [][NextVersion]_vars

InitTags ==
    /\ StartState({DefaultConfig})
    /\ fnArgs \in [actual : [major : {0}, minor : {11}, patch : {0},
                             tags : HarnessTagLists],
                   required : HarnessTagLists]
    /\ fnRes = <<>>

ApplyAssertBuildTagsEnabled ==
    /\ fnRes = <<>>
    /\ fnRes' = <<assertBuildTagsEnabled(fnArgs.actual, fnArgs.required)>>
    /\ UNCHANGED <<bootVars, registryVars, cleanupLog, syncVars, available, fnArgs>>

NextTags == ApplyAssertBuildTagsEnabled

SpecTags == InitTags /\ [][NextTags]_vars

(***************************************************************************)
(* Properties.                                                             *)
(***************************************************************************)
\* NewLndServices has got past loadAvailablePermissions
PermissionsLoaded ==
    \/ pc \in {"waitForChainSync", "recvUpdate"}
    \/ pc = "returned" /\ ret.at \in {"activate", "waitForChainSync", "done"}

\* C1: for every combination of permission flags, a false lightning flag
\* makes NewLndServices return an error and no registry; with a true
\* lightning flag the Client and Versioner slots are populated and each of
\* ChainNotifier, Invoices, Signer, WalletKit and Router is populated if and
\* only if its own flag is true.
C1_SlotsFollowPermissions ==
    /\ (PermissionsLoaded /\ ~permissions.lightning) =>
          /\ ret.returned /\ ret.err # NoErr /\ ~ret.services
          /\ ~lndServices.Client
    /\ (PermissionsLoaded /\ permissions.lightning) =>
          /\ lndServices.Client
          /\ lndServices.Versioner
          /\ lndServices.ChainNotifier <=> permissions.chainNotifier
          /\ lndServices.Invoices <=> permissions.invoices
          /\ lndServices.Signer <=> permissions.signer
          /\ lndServices.WalletKit <=> permissions.walletKit
          /\ lndServices.Router <=> permissions.router
    /\ ret.services => permissions.lightning

C1_Witness ==
    /\ ret.services
    /\ permissions.lightning /\ permissions.signer /\ ~permissions.walletKit
    /\ permissions.router /\ ~permissions.chainNotifier
    /\ lndServices.Signer /\ ~lndServices.WalletKit

\* the position of a version in the lexicographic order of its triple
LexRank(v) ==
    (v.major * (MaxComponent + 1) + v.minor) * (MaxComponent + 1) + v.patch

\* C2: assertVersionCompatible returns nil if and only if the actual
\* (major, minor, patch) is lexicographically at least the expected one, and
\* ErrVersionIncompatible otherwise; a strictly greater higher-order
\* component makes it compatible whatever the lower-order ones are.
C2_VersionOrderIsLexicographic ==
    fnRes # <<>> =>
        LET a == fnArgs.actual
            e == fnArgs.expected
        IN /\ fnRes[1] = NoErr <=> LexRank(a) >= LexRank(e)
           /\ fnRes[1] # NoErr => fnRes[1] = ErrVersionIncompatible
           /\ a.major > e.major => fnRes[1] = NoErr
           /\ (a.major = e.major /\ a.minor > e.minor) => fnRes[1] = NoErr

C2_Witness ==
    /\ fnRes = <<NoErr>>
    /\ fnArgs.actual.major > fnArgs.expected.major
    /\ fnArgs.actual.minor < fnArgs.expected.minor
    /\ fnArgs.actual.patch < fnArgs.expected.patch

\* C3: assertBuildTagsEnabled returns nil if and only if every required tag
\* occurs among the actual tags, whatever the order and the duplicates of
\* either list (so an empty required list passes), and ErrBuildTagsMissing
\* otherwise.
C3_TagsAreASubsetTest ==
    fnRes # <<>> =>
        LET actualTags == fnArgs.actual.tags
            required == fnArgs.required
            Occurs(t, list) == \E i \in 1..Len(list) : list[i] = t
        IN /\ fnRes[1] = NoErr <=>
                 \A t \in HarnessTagNames :
                    Occurs(t, required) => Occurs(t, actualTags)
           /\ fnRes[1] # NoErr => fnRes[1] = ErrBuildTagsMissing
           /\ required = <<>> => fnRes[1] = NoErr

C3_Witness ==
    /\ fnRes = <<NoErr>>
    /\ fnArgs.required = <<"signrpc", "walletrpc", "signrpc">>
    /\ fnArgs.actual.tags = <<"walletrpc", "signrpc", "chainrpc">>

\* C4: whenever checkLndCompatibility fails, for any cause, the connection
\* is closed when NewLndServices returns the error; when it succeeds the
\* connection is still open.
C4_CompatFailureClosesConn ==
    /\ compatErr # NoErr =>
          /\ conn = "closed"
          /\ ret.returned /\ ret.at = "compat" /\ ret.err # NoErr /\ ~ret.services
    /\ (ret.returned /\ ret.at = "compat") => (compatErr # NoErr /\ conn = "closed")
    /\ pc = "pouch" => (conn = "open" /\ compatErr = NoErr)

C4_Witness ==
    /\ ret.returned
    /\ compatErr = ErrBuildTagsMissing
    /\ conn = "closed"

\* the number of times call f occurs in one run of cleanup
CallsIn(run, f) == Cardinality({i \in 1..Len(run) : run[i] = f})

\* C5: in every run of the teardown, conn.Close() is called before the first
\* shutdown hook, and every hook registered during activation is called
\* exactly once in that run, for every combination of enabled domains.
C5_CloseFirstThenEachHookOnce ==
    \A k \in 1..Len(cleanupLog) :
        LET run == cleanupLog[k]
        IN /\ run[1] = "conn.Close"
           /\ CallsIn(run, "conn.Close") = 1
           /\ \A i \in 1..Len(cleanupFuncs) : CallsIn(run, cleanupFuncs[i]) = 1
           /\ Len(run) = 1 + Len(cleanupFuncs)
           /\ Len(cleanupFuncs) =
                 1 + (IF permissions.chainNotifier THEN 1 ELSE 0)
                   + (IF permissions.invoices THEN 1 ELSE 0)

C5_Witness ==
    /\ Len(cleanupLog) = 1
    /\ permissions.chainNotifier /\ permissions.invoices
    /\ Len(cleanupLog[1]) = 4
    /\ cleanupLog[1][1] = "conn.Close"

\* the number of times call f was made over all runs of cleanup
TotalCalls(f) ==
    Cardinality({<<k, i>> \in (1..Len(cleanupLog)) \X (1..(1 + Len(cleanupFuncs))) :
                    i <= Len(cleanupLog[k]) /\ cleanupLog[k][i] = f})

\* C6: on a registry returned by a successful bootstrap, once Close has been
\* called (also repeatedly), conn.Close() has been performed exactly once in
\* total and every shutdown hook has run exactly once in total.
C6_ClosedAndHooksRunOnceInTotal ==
    (ret.services /\ Len(cleanupLog) >= 1) =>
        /\ TotalCalls("conn.Close") = 1
        /\ \A i \in 1..Len(cleanupFuncs) : TotalCalls(cleanupFuncs[i]) = 1

\* C7: NewLndServices fails with the macaroon configuration error if and
\* only if CustomMacaroon is nil and both MacaroonDir and CustomMacaroonPath
\* are set; then no connection has been opened and no RPC issued; with
\* CustomMacaroon supplied, setting both does not cause this error.
C7_ConfigErrorIffBothSourcesAndNoRaw ==
    /\ (ret.returned /\ ret.err = ErrMacaroonConfig) =>
          /\ ~cfg.customMacaroon /\ cfg.macaroonDir /\ cfg.customMacaroonPath
          /\ ~ret.services
          /\ conn = "none"
          /\ rpcs = <<>> /\ polls = <<>>
    /\ (pc # "start" /\ ~cfg.customMacaroon /\ cfg.macaroonDir
            /\ cfg.customMacaroonPath) =>
          (ret.returned /\ ret.err = ErrMacaroonConfig)
    /\ (pc # "start" /\ cfg.customMacaroon) => ret.err # ErrMacaroonConfig

C7_Witness ==
    /\ ret.returned
    /\ ret.err = ErrMacaroonConfig
    /\ cfg.macaroonDir /\ cfg.customMacaroonPath /\ ~cfg.customMacaroon

C9_SyncedAfterNQueriesAndNMinusOneIntervals ==
    /\ \A i \in 1..(Len(polls) - 1) : polls[i] = "notSynced"
    /\ syncErr = <<NoErr>> =>
          /\ Len(polls) >= 1
          /\ polls[Len(polls)] = "synced"
          /\ gpc = "exited"
    /\ (~ctxDone /\ syncErr = <<NoErr>>) => intervals = Len(polls) - 1
    /\ (~ctxDone /\ gpc = "inFlight") => intervals = Len(polls)
    /\ (~ctxDone /\ gpc \in {"select", "blocked"}) => intervals <= Len(polls)

C9_Witness ==
    /\ syncErr = <<NoErr>>
    /\ ~ctxDone
    /\ polls = <<"notSynced", "notSynced", "synced">>
    /\ intervals = 2

\* C10: if the context is cancelled while the goroutine is blocked in the
\* select between two queries, waitForChainSync ends with the context's
\* error (neither a GetInfo error nor nil) and no further query is issued.
C10_CancelWhileSleepingEndsWait ==
    cancelAt.gpc = "blocked" =>
        /\ gpc \in {"send", "exited"}
        /\ outcome = ErrContextCanceled
        /\ Len(polls) = cancelAt.polls
        /\ polls[Len(polls)] = "notSynced"
        /\ update # "closed"
        /\ syncErr # <<>> => syncErr = <<ErrContextCanceled>>
        /\ ret.returned =>
              /\ ~ret.services
              /\ ret.err = Wrap("error waiting for chain to be synced",
                                ErrContextCanceled)

C10_Witness ==
    /\ cancelAt.gpc = "blocked"
    /\ cancelAt.polls = 1
    /\ syncErr = <<ErrContextCanceled>>
    /\ ret.returned

\* C11 as stated: a query in flight is never ended by the caller's context;
\* a context cancelled while a query is in flight does not end that query.
C11_QueryNeverEndedByToken ==
    (cancelAt.gpc = "inFlight" /\ Len(polls) > cancelAt.polls) =>
        polls[cancelAt.polls + 1] # "context canceled"

\* C11 as amended: a query ends by its own result, by its per-call timeout
\* or by the caller's context, from which its context is derived; a query
\* ended by the caller's context was ended after the context was cancelled,
\* it is the last query, and the wait fails with the GetInfo error that
\* carries "context canceled".
C11_QueryEndsByResultTimeoutOrToken ==
    \A i \in 1..Len(polls) :
        /\ polls[i] \in {"synced", "notSynced", "rpc error",
                         "context deadline exceeded", "context canceled"}
        /\ polls[i] = "context canceled" =>
              /\ ctxDone
              /\ cancelAt.polls < i
              /\ i = Len(polls)
              /\ gpc \in {"send", "exited"}
              /\ outcome = Err(<<"error in GetInfo call", "context canceled">>)
              /\ syncErr # <<>> => syncErr = <<outcome>>

C11_Witness ==
    /\ cancelAt.gpc = "inFlight"
    /\ cancelAt.polls = 1
    /\ polls = <<"notSynced", "context canceled">>
    /\ syncErr = <<Err(<<"error in GetInfo call", "context canceled">>)>>

\* C12: at most one status query is in flight at any time; a query is issued
\* only after every earlier query has returned and a poll interval has
\* elapsed for each of them.
C12_AtMostOneQueryInFlight ==
    /\ inFlight \in {0, 1}
    /\ inFlight = 1 <=> gpc = "inFlight"
    /\ inFlight = 1 => intervals >= Len(polls)
    /\ \A i \in 1..(Len(polls) - 1) : polls[i] = "notSynced"

C12_Witness ==
    /\ inFlight = 1
    /\ polls = <<"notSynced", "notSynced">>
    /\ intervals = 2

\* C13: a failed status query is terminal: after a query has returned an
\* error no further query is issued, the goroutine sends the error and
\* exits, and waitForChainSync and NewLndServices return an error carrying
\* that query's error.
C13_PollErrorIsTerminal ==
    \A i \in 1..Len(polls) :
        polls[i] \notin {"synced", "notSynced"} =>
            /\ i = Len(polls)
            /\ inFlight = 0
            /\ gpc \in {"send", "exited"}
            /\ update = "open"
            /\ outcome = Err(<<"error in GetInfo call", polls[i]>>)
            /\ syncErr # <<>> => syncErr = <<outcome>>
            /\ gpc = "exited" => syncErr = <<outcome>>
            /\ ret.returned =>
                  /\ ~ret.services
                  /\ ret.err = Wrap("error waiting for chain to be synced", outcome)

C13_Witness ==
    /\ polls = <<"notSynced", "rpc error">>
    /\ gpc = "exited"
    /\ ret.returned
    /\ ret.err.text = <<"error waiting for chain to be synced",
                        "error in GetInfo call", "rpc error">>

\* the terminal outcome the goroutine has reached, "" while it is polling
Terminal ==
    IF update = "closed" THEN "Synced"
    ELSE IF gpc \in {"send", "exited"} /\ outcome = ErrContextCanceled THEN "Cancelled"
    ELSE IF gpc \in {"send", "exited"} THEN "Failed"
    ELSE ""

\* C14: the goroutine delivers exactly one terminal outcome to the blocked
\* caller: waitForChainSync returns only when the goroutine has reached a
\* terminal state, with that outcome; the goroutine has exited once the
\* outcome is delivered; a goroutine blocked in its send always has the
\* caller receiving, and a caller still blocked after the goroutine exited
\* finds update closed.
C14_OneOutcomeDelivered ==
    /\ syncErr # <<>> =>
          /\ gpc = "exited"
          /\ Terminal \in {"Synced", "Failed", "Cancelled"}
          /\ Terminal = "Synced" <=> syncErr = <<NoErr>>
          /\ Terminal # "Synced" => (syncErr = <<outcome>> /\ outcome # NoErr)
          /\ pc = "returned"
    /\ (cfg.blockUntilChainSynced /\ pc = "returned" /\ gpc # "idle") =>
          (syncErr # <<>> /\ gpc = "exited")
    /\ update = "closed" =>
          (gpc = "exited" /\ outcome = NoErr /\ polls[Len(polls)] = "synced")
    /\ gpc = "send" => (pc = "recvUpdate" /\ update = "open" /\ outcome # NoErr)
    /\ (gpc = "exited" /\ pc = "recvUpdate") => update = "closed"
    /\ (gpc = "exited" /\ update = "open") => syncErr = <<outcome>>
    /\ gpc # "idle" => pc \in {"recvUpdate", "returned"}

C14_Witness ==
    /\ syncErr = <<ErrContextCanceled>>
    /\ Terminal = "Cancelled"
    /\ gpc = "exited"
    /\ pc = "returned"

\* the error onErr builds for ErrVersionIncompatible and ErrBuildTagsMissing
VersionRequirementError(minVersion) ==
    [text |-> <<"error checking connected lnd version. at least version is required">>,
     version |-> <<minVersion.major, minVersion.minor, minVersion.patch>>]

\* C15 as stated: when the compatibility check fails because a required tag
\* is missing while the version numbers are compatible, the error returned
\* to the caller differs from the error returned for incompatible version
\* numbers under the same configured minimum version.
C15_TagErrorDiffersFromVersionError ==
    (ret.returned /\ compatErr = ErrBuildTagsMissing) =>
        ret.err # onErr(conn, ErrVersionIncompatible, cfg.checkVersion[1]).err

\* C15 as amended: checkVersionCompatibility returns ErrBuildTagsMissing for
\* a missing tag with compatible version numbers and ErrVersionIncompatible
\* for incompatible numbers, but the error NewLndServices returns is in both
\* cases the same version-requirement error, which names the configured
\* minimum version; every other failure of the compatibility check returns
\* an error that differs from it.
C15_TagAndVersionErrorsCoincide ==
    /\ compatErr = ErrBuildTagsMissing =>
          /\ evaluated = <<"assertVersionCompatible", "assertBuildTagsEnabled">>
          /\ ret.returned /\ ret.at = "compat"
          /\ ret.err = VersionRequirementError(cfg.checkVersion[1])
    /\ compatErr = ErrVersionIncompatible =>
          /\ evaluated = <<"assertVersionCompatible">>
          /\ ret.returned /\ ret.at = "compat"
          /\ ret.err = VersionRequirementError(cfg.checkVersion[1])
    /\ (ret.returned /\ ret.at = "compat"
            /\ compatErr \notin {ErrBuildTagsMissing, ErrVersionIncompatible}) =>
          /\ ret.err.text[1] = "lnd compatibility check failed"
          /\ ret.err # VersionRequirementError(cfg.checkVersion[1])

C15_Witness ==
    /\ ret.returned
    /\ compatErr = ErrBuildTagsMissing
    /\ cfg.checkVersion = <<minimalCompatibleVersion>>
    /\ versionReply.version[1].minor = 11 /\ versionReply.version[1].patch = 1
    /\ ret.err = VersionRequirementError(minimalCompatibleVersion)

\* the names GetAvailableClients returned at its latest call
AvailableNames == Range(available[1].names)

\* the latest result of GetAvailableClients agrees with the permission flags
\* and with the client slots
AvailableMatchesPermissions ==
    available # <<>> =>
        /\ "lightning" \in AvailableNames <=> permissions.lightning
        /\ "walletkit" \in AvailableNames <=> permissions.walletKit
        /\ "router" \in AvailableNames <=> permissions.router
        /\ "signer" \in AvailableNames <=> permissions.signer
        /\ "invoices" \in AvailableNames <=> permissions.invoices
        /\ "chainnotifier" \in AvailableNames <=> permissions.chainNotifier
        /\ "readonly" \in AvailableNames <=> permissions.readOnly
        /\ AvailableNames \subseteq {"lightning", "walletkit", "router", "signer",
                                     "invoices", "chainnotifier", "readonly"}
        /\ Cardinality(AvailableNames) = Len(available[1].names)
        /\ "lightning" \in AvailableNames <=> lndServices.Client
        /\ "walletkit" \in AvailableNames <=> lndServices.WalletKit
        /\ "chainnotifier" \in AvailableNames <=> lndServices.ChainNotifier
        /\ "signer" \in AvailableNames <=> lndServices.Signer
        /\ "invoices" \in AvailableNames <=> lndServices.Invoices
        /\ "router" \in AvailableNames <=> lndServices.Router

\* C16: GetAvailableClients returns a domain name if and only if that
\* domain's permission flag is true ("readonly" included), each name at most
\* once; for the six client domains a name is returned if and only if the
\* client slot is populated; and every call after bootstrap, also after
\* Close, returns the same result.
C16_AvailableClientsFollowPermissions ==
    /\ []AvailableMatchesPermissions
    /\ [][(available # <<>> /\ available' # <<>>) =>
             available'[1].names = available[1].names]_vars

C16_Witness ==
    /\ available # <<>>
    /\ available[1].closes = 1
    /\ available[1].names = <<"lightning", "router", "readonly">>

\* C17 as stated: the context is checked before every status query: once it
\* is cancelled, before the first query or between two queries, no new query
\* is issued and the wait ends with the context's error.
C17_NoQueryOnceTokenSignaled ==
    (ctxDone /\ cancelAt.gpc \in {"idle", "query", "select", "blocked"}) =>
        /\ Len(polls) + inFlight = cancelAt.polls
        /\ syncErr # <<>> => syncErr = <<ErrContextCanceled>>

\* C17 as amended: the context is looked at in the select between two
\* queries only. A goroutine that leaves the select while the context is
\* cancelled and the poll interval has not elapsed, or that is blocked in
\* the select when the context is cancelled, leaves it by the Done case: it
\* sends the context's error and issues no query; after that no query is
\* issued and NewLndServices returns that error, wrapped. A wait that ends
\* with the context's error ends in the select after a not-synced query.
C17_TokenCheckedInSelectOnly ==
    /\ [][(gpc = "select" /\ ctxDone /\ ~timerReady(timer) /\ gpc' # gpc) =>
             (gpc' = "send" /\ outcome' = ErrContextCanceled
              /\ polls' = polls /\ inFlight' = 0)]_vars
    /\ [][(gpc = "blocked" /\ ~ctxDone /\ ctxDone') =>
             (gpc' = "send" /\ outcome' = ErrContextCanceled
              /\ polls' = polls /\ inFlight' = 0)]_vars
    /\ [][(gpc = "send" \/ gpc = "exited") =>
             (gpc' \in {"send", "exited"} /\ polls' = polls /\ inFlight' = 0
              /\ outcome' = outcome)]_vars
    /\ [](Terminal = "Cancelled" =>
             /\ ctxDone
             /\ cancelAt.gpc \in {"idle", "query", "inFlight", "select", "blocked"}
             /\ Len(polls) >= 1
             /\ polls[Len(polls)] = "notSynced"
             /\ inFlight = 0
             /\ syncErr # <<>> => syncErr = <<ErrContextCanceled>>
             /\ ret.returned =>
                   /\ ~ret.services
                   /\ ret.err = Wrap("error waiting for chain to be synced",
                                     ErrContextCanceled))

C17_Witness ==
    /\ cancelAt.gpc = "select"
    /\ cancelAt.polls = 2
    /\ polls = <<"notSynced", "notSynced">>
    /\ intervals = 1
    /\ syncErr = <<ErrContextCanceled>>
    /\ ret.returned

\* (major, minor, patch) of a is lexicographically at least that of e
VersionAtLeast(a, e) ==
    \/ a.major > e.major
    \/ a.major = e.major /\ a.minor > e.minor
    \/ a.major = e.major /\ a.minor = e.minor /\ a.patch >= e.patch

\* the compatibility check has been made and has succeeded
CompatCheckPassed ==
    /\ rpcs = <<"GetInfo", "GetVersion">>
    /\ evaluated = <<"assertVersionCompatible", "assertBuildTagsEnabled">>
    /\ compatErr = NoErr
    /\ conn = "open" \/ cleanupLog # <<>>
    /\ Len(info) = 1
    /\ ~info[1].err
    /\ info[1].network = cfg.network
    /\ versionReply.kind = "version"
    /\ Len(cfg.checkVersion) = 1
    /\ \/ cfg.checkVersion[1] = CustomCheckVersion
       \/ cfg.checkVersion[1] =
              [major |-> 0, minor |-> 11, patch |-> 0,
               tags |-> <<"signrpc", "walletrpc", "chainrpc", "invoicesrpc">>]
    /\ VersionAtLeast(versionReply.version[1], cfg.checkVersion[1])
    /\ Range(cfg.checkVersion[1].tags) \subseteq Range(versionReply.version[1].tags)

\* some client slot of lndServices is populated
SomeClientConstructed ==
    \E s \in {"Client", "WalletKit", "ChainNotifier", "Signer", "Invoices",
              "Router", "Versioner"} : lndServices[s]

\* C18: NewLndServices returns a registry only if the network the daemon
\* reported equals the configured one, the reported version is at least the
\* configured minimum (0.11.0 with signrpc, walletrpc, chainrpc, invoicesrpc
\* when none is configured) and has every required tag; the registry's
\* Version, NodeAlias and NodePubkey are the values the daemon reported in
\* that check; no client of the registry exists before the check succeeded.
C18_RegistryOnlyAfterCompatCheck ==
    /\ pc # "start" =>
          /\ Len(cfg.checkVersion) = 1
          /\ cfg.checkVersion[1] # CustomCheckVersion =>
                cfg.checkVersion[1] =
                    [major |-> 0, minor |-> 11, patch |-> 0,
                     tags |-> <<"signrpc", "walletrpc", "chainrpc", "invoicesrpc">>]
    /\ ret.services =>
          /\ CompatCheckPassed
          /\ lndServices.Version = versionReply.version
          /\ lndServices.NodeAlias = info[1].alias
          /\ lndServices.NodePubkey = info[1].pubkey
          /\ lndServices.Client
    /\ SomeClientConstructed => CompatCheckPassed
    /\ lndServices # NoServices => CompatCheckPassed
    /\ pc \in {"start", "loadDir", "dial", "chainParams", "readonlyMac",
               "checkPermissions", "getInfo", "getVersion", "assertVersion",
               "assertTags", "pouch", "activate"} => lndServices = NoServices
    /\ (ret.returned /\ ret.at = "compat") =>
          (lndServices = NoServices /\ ~ret.services /\ compatErr # NoErr)

C18_Witness ==
    /\ ret.services
    /\ cfg.checkVersion = <<minimalCompatibleVersion>>
    /\ versionReply.version[1].major = 1
    /\ lndServices.Version = versionReply.version
    /\ lndServices.NodeAlias = "alice"
    /\ lndServices.Signer

\* C19: when BlockUntilChainSynced is set and waitForChainSync returns an
\* error (a failed query or the context's error), NewLndServices runs cleanup
\* exactly once before it returns (conn.Close, then every cleanupFunc once),
\* returns no services and returns the wait's error wrapped; cleanup is not
\* run while the wait goes on; when BlockUntilChainSynced is not set no
\* status query is issued and the services are returned with the connection
\* open.
C19_SyncFailureTearsDownOnce ==
    /\ (ret.returned /\ ret.at = "waitForChainSync") =>
          /\ cfg.blockUntilChainSynced
          /\ Terminal \in {"Failed", "Cancelled"}
          /\ Len(cleanupLog) = 1
          /\ cleanupLog[1] = <<"conn.Close">> \o cleanupFuncs
          /\ Cardinality(Range(cleanupFuncs)) = Len(cleanupFuncs)
          /\ conn = "closed"
          /\ ~ret.services
          /\ Len(syncErr) = 1
          /\ syncErr[1] # NoErr
          /\ ret.err = Wrap("error waiting for chain to be synced", syncErr[1])
    /\ (pc = "returned" /\ Terminal \in {"Failed", "Cancelled"}) =>
          (ret.at = "waitForChainSync" /\ cfg.blockUntilChainSynced)
    /\ pc \in {"waitForChainSync", "recvUpdate"} =>
          (cfg.blockUntilChainSynced /\ cleanupLog = <<>> /\ conn = "open")
    /\ ~cfg.blockUntilChainSynced =>
          /\ polls = <<>>
          /\ inFlight = 0
          /\ gpc = "idle"
          /\ update = "none"
          /\ syncErr = <<>>
          /\ Len(rpcs) <= 2
          /\ ret.at = "done" => (ret.services /\ ret.err = NoErr)
          /\ (ret.services /\ cleanupLog = <<>>) => conn = "open"
    /\ ret.services => (ret.at = "done" /\ (cleanupLog = <<>> => conn = "open"))

C19_Witness ==
    /\ ret.returned
    /\ ret.at = "waitForChainSync"
    /\ Terminal = "Cancelled"
    /\ cleanupLog = <<<<"conn.Close", "lightningClient.WaitForFinished",
                        "notifierClient.WaitForFinished",
                        "invoicesClient.WaitForFinished">>>>
    /\ conn = "closed"

\* the hooks of cleanupFuncs follow the activation order of their clients
HooksInActivationOrder ==
    /\ Len(cleanupFuncs) >= 1
    /\ cleanupFuncs[1] = "lightningClient.WaitForFinished"
    /\ Range(cleanupFuncs) \subseteq
          {"lightningClient.WaitForFinished", "notifierClient.WaitForFinished",
           "invoicesClient.WaitForFinished"}
    /\ "notifierClient.WaitForFinished" \in Range(cleanupFuncs)
          <=> permissions.chainNotifier
    /\ "invoicesClient.WaitForFinished" \in Range(cleanupFuncs)
          <=> permissions.invoices
    /\ permissions.chainNotifier =>
          cleanupFuncs[2] = "notifierClient.WaitForFinished"
    /\ permissions.invoices =>
          cleanupFuncs[Len(cleanupFuncs)] = "invoicesClient.WaitForFinished"
    /\ Len(cleanupFuncs) = 1 + (IF permissions.chainNotifier THEN 1 ELSE 0)
                             + (IF permissions.invoices THEN 1 ELSE 0)

\* C20: the shutdown hooks are registered in activation order and every run
\* of cleanup calls them in that order: the lightning client's hook, then
\* the chain notifier's if enabled, then the invoices client's if enabled;
\* the signer, wallet kit, router and versioner clients register none, so a
\* run calls 1 + (enabled among chain notifier and invoices) hooks.
C20_HooksRunInActivationOrder ==
    /\ (PermissionsLoaded /\ permissions.lightning) => HooksInActivationOrder
    /\ ~(PermissionsLoaded /\ permissions.lightning) =>
          (cleanupFuncs = <<>> /\ cleanupLog = <<>>)
    /\ \A k \in 1..Len(cleanupLog) :
          /\ Len(cleanupLog[k]) = 1 + Len(cleanupFuncs)
          /\ \A i \in 1..Len(cleanupFuncs) : cleanupLog[k][i + 1] = cleanupFuncs[i]
          /\ Len(cleanupLog[k]) - 1 =
                1 + (IF permissions.chainNotifier THEN 1 ELSE 0)
                  + (IF permissions.invoices THEN 1 ELSE 0)

C20_Witness ==
    /\ Len(cleanupLog) = 1
    /\ permissions.chainNotifier /\ permissions.invoices
    /\ permissions.signer /\ permissions.walletKit /\ permissions.router
    /\ cleanupLog[1][2] = "lightningClient.WaitForFinished"
    /\ cleanupLog[1][3] = "notifierClient.WaitForFinished"
    /\ cleanupLog[1][4] = "invoicesClient.WaitForFinished"

\* no status query has failed
NoQueryFailed ==
    \A i \in 1..Len(polls) : polls[i] \in {"synced", "notSynced"}

\* no status query has reported synced
NoQuerySynced ==
    \A i \in 1..Len(polls) : polls[i] # "synced"

\* the wait has not used up the queries the model allows
WithinMaxPolls ==
    ~(gpc = "query" /\ Len(polls) + inFlight >= MaxPolls)

\* waitForChainSync has returned nil and NewLndServices the services
SyncWaitSucceeded ==
    /\ syncErr = <<NoErr>>
    /\ pc = "returned"
    /\ ret.services

\* waitForChainSync has returned an error and NewLndServices has passed it on
SyncWaitFailed ==
    /\ Len(syncErr) = 1
    /\ syncErr[1] # NoErr
    /\ pc = "returned"
    /\ ~ret.services
    /\ ret.err = Wrap("error waiting for chain to be synced", syncErr[1])

\* C21: under fair scheduling, if no status query fails, the context is
\* never cancelled and the daemon reports synced from some query on (at the
\* latest from query MaxPolls), a waitForChainSync that was entered
\* eventually returns nil; and if the context is cancelled during the wait
\* while no query reports synced (and the wait stays within MaxPolls
\* queries), the wait eventually returns an error.
C21_SyncWaitTerminates ==
    /\ ([]NoQueryFailed /\ []~ctxDone
           /\ [](Len(polls) >= MaxPolls => polls[MaxPolls] = "synced"))
          => ((pc = "waitForChainSync") ~> SyncWaitSucceeded)
    /\ ([]NoQuerySynced /\ []WithinMaxPolls)
          => ((pc \in {"waitForChainSync", "recvUpdate"} /\ ctxDone)
                 ~> SyncWaitFailed)

C21_Witness ==
    /\ SyncWaitSucceeded
    /\ ~ctxDone
    /\ polls = <<"notSynced", "synced">>
    /\ intervals = 1
    /\ gpc = "exited"

\* C22: no connection is leaked by a failed bootstrap: whenever NewLndServices
\* returns an error after getClientConn opened the connection (a failure of
\* ChainParams, of the readonly macaroon load, of the readonly permission
\* check, of the compatibility check, of newMacaroonPouch, a missing
\* lightning permission, or a failed sync wait), the connection is closed
\* at the return.
C22_FailedBootstrapClosesConn ==
    (ret.returned /\ ~ret.services
        /\ ret.at \in {"chainParams", "readonlyMac", "checkPermissions", "compat",
                       "pouch", "activate", "waitForChainSync"}) =>
        conn = "closed"

====
